---- MODULE Spec2Model ----
(***************************************************************************)
(* Model of the repository layer of fantom-api-graphql:                    *)
(*   - the staker information facade of internal/repository/sti.go         *)
(*     (PullStakerInfo, StoreStakerInfo, RetrieveStakerInfo) over an       *)
(*     in-memory cache and the RPC source;                                 *)
(*   - the contract call analyzer of the same file (analyzeCall and the    *)
(*     functions it calls).                                                *)
(*                                                                         *)
(* Go values are modelled as follows.  A pointer is an option: <<>> is nil *)
(* and <<v>> points to v.  A string is the sequence of its characters.     *)
(* A byte is a natural number below 256.                                   *)
(***************************************************************************)
EXTENDS Integers, Sequences, FiniteSets

VARIABLES
    cache,      \* staker id -> cached *StakerInfo (<<>>: no entry)
    source,     \* staker id -> what rpc.StakerInfo answers for the id now
    rpcCalls,   \* staker id -> number of rpc.StakerInfo calls made so far
    cacheOps,   \* staker id -> number of cache.PushStakerInfo calls so far
    last,       \* the last facade operation, its observations and its result
    trx,        \* the *types.Transaction handed to analyzeCall
    db,         \* the derived fields of the transaction as the store has them
    call,       \* the last analyzeCall: what it consulted and what it did
    fatal,      \* a panic has ended the process
    wd,         \* the last WithdrawRequests: its arguments, query and result
    dbQueries,  \* number of db.Withdrawals queries made so far
    buffer,     \* cq.buffer: the transactions sent and not yet received
    sigStop,    \* cq.sigStop has been closed
    wg,         \* cq.wg: the wait group's counter
    pc,         \* where monitorContractCalls is
    cur,        \* the transaction monitorContractCalls has received
    mem,        \* the transaction records in memory, by order of sending
    store,      \* the derived fields of each transaction in the database
    enq,        \* number of values sent to cq.buffer so far
    started,    \* the transactions analyzeCall was called with, in order
    finished    \* the transactions analyzeCall has returned for, in order

stiVars == <<cache, source, rpcCalls, cacheOps, last>>

callVars == <<trx, db, call, fatal>>

wdVars == <<wd, dbQueries>>

queueVars ==
    <<buffer, sigStop, wg, pc, cur, mem, store, enq, started, finished>>

vars == <<stiVars, callVars, wdVars, queueVars>>

----------------------------------------------------------------------------
(* Bounds                                                                  *)

\* how many source calls and cache pushes per staker id a run may make
MaxCalls == 2

\* the longest input data of a transaction, in bytes
MaxInputLen == 5

\* how many withdraw request queries a run may make
MaxQueries == 2

\* the largest page size asked for, forwards or backwards
MaxCount == 2

\* how many values a run sends to the queue
MaxTrx == 3

\* the capacity of the queue's channel, scaled down from 50000
contractCallQueueLength == 2

----------------------------------------------------------------------------
(* Values                                                                  *)

Nil == <<>>

Ptr(v) == <<v>>

Deref(p) == p[1]

StakerIds == {1, 2}

\* a staker name, "v1"
StakerName == <<"v", "1">>

\* new(types.StakerInfo): every field at its zero value
EmptyStakerInfo == [Name |-> Nil]

NamedStakerInfo == [Name |-> Ptr(StakerName)]

StakerInfos == {EmptyStakerInfo, NamedStakerInfo}

StakerInfoPtrs == {Nil} \cup {Ptr(s) : s \in StakerInfos}

RpcError == Ptr(<<"r", "p", "c">>)

CacheError == Ptr(<<"c", "a", "c", "h", "e">>)

\* no contract and no account looked up
NoContract == [sc |-> Nil, err |-> Nil]

NoAccount == [acc |-> Nil, err |-> Nil]

\* no analyzeCall made since the transaction arrived
NoCall ==
    [op |-> "none", outcome |-> "none", contract |-> NoContract,
     contractLookup |-> FALSE, account |-> NoAccount,
     accountLookup |-> FALSE, updateCalled |-> FALSE, updateErr |-> Nil,
     strategy |-> "none"]

\* no WithdrawRequests made yet
NoWithdraw ==
    [op |-> "none", addr |-> Nil, stakerID |-> Nil, cursor |-> Nil,
     count |-> 0, qCursor |-> Nil, qCount |-> 0, qFilter |-> <<>>,
     ret |-> [list |-> Nil, err |-> Nil]]

\* the queue after newContractCallQueue: the wait group counts the worker,
\* which waits in its select; nothing was sent
InitQueueVars ==
    /\ buffer = <<>>
    /\ sigStop = FALSE
    /\ wg = 1
    /\ pc = "select"
    /\ cur = Nil
    /\ mem = <<>>
    /\ store = <<>>
    /\ enq = 0
    /\ started = <<>>
    /\ finished = <<>>

\* the answers of rpc.StakerInfo(id): (info, err)
SourceAnswers ==
    {[info |-> p, err |-> Nil] : p \in StakerInfoPtrs}
        \cup {[info |-> Nil, err |-> RpcError]}

----------------------------------------------------------------------------
(* The in-memory cache                                                     *)

\* cache.PullStakerInfo(id): the entry kept under id, nil if none
CachePullStakerInfo(c, id) == c[id]

\* cache.PushStakerInfo(id, sti): the cache after the push; a failed push
\* keeps the cache as it was
CachePushStakerInfo(c, id, sti, pushOk) ==
    IF pushOk THEN [c EXCEPT ![id] = Ptr(sti)] ELSE c

\* the error cache.PushStakerInfo(id, sti) returns
CachePushError(pushOk) == IF pushOk THEN Nil ELSE CacheError

----------------------------------------------------------------------------
(* proxy.StoreStakerInfo                                                   *)

StoreStakerInfoCache(c, id, sti, pushOk) ==
    CachePushStakerInfo(c, id, sti, pushOk)

StoreStakerInfoErr(pushOk) ==
    IF CachePushError(pushOk) # Nil THEN CachePushError(pushOk) ELSE Nil

----------------------------------------------------------------------------
(* proxy.PullStakerInfo                                                    *)

PullStoresNever(ans) == FALSE

\* whether PullStakerInfo pushes its result to the cache: only inside the
\* info == nil branch, after the error return
PullStores(ans) == ans.err = Nil /\ ans.info = Nil

PullStakerInfoRetSwallow(ans) ==
    IF ans.info = Nil
    THEN [info |-> Ptr(EmptyStakerInfo), err |-> Nil]
    ELSE [info |-> ans.info, err |-> Nil]

\* (info, err) returned by PullStakerInfo
PullStakerInfoRet(ans) ==
    IF ans.err # Nil
    THEN [info |-> Nil, err |-> ans.err]
    ELSE IF ans.info = Nil
         THEN [info |-> Ptr(EmptyStakerInfo), err |-> Nil]
         ELSE [info |-> ans.info, err |-> Nil]

\* the cache after PullStakerInfo
PullStakerInfoCache(c, id, ans, pushOk) ==
    IF PullStores(ans)
    THEN StoreStakerInfoCache(c, id, Deref(PullStakerInfoRet(ans).info), pushOk)
    ELSE c

\* the outcomes the push of PullStakerInfo can have, when it makes one
PushOutcomes(ans) == IF PullStores(ans) THEN BOOLEAN ELSE {TRUE}

\* the number of cache pushes after PullStakerInfo
PullStakerInfoOps(ops, id, ans) ==
    IF PullStores(ans) THEN [ops EXCEPT ![id] = @ + 1] ELSE ops

----------------------------------------------------------------------------
(* proxy.RetrieveStakerInfo                                                *)

RetrievePullsAlways(info) == TRUE

\* the source is asked only when the cache has no entry
RetrievePulls(info) == info = Nil

\* The value returned.  The info and err of the if statement are new
\* variables of its scope: the pulled record is tested there and the
\* function returns the variable assigned from the cache.
RetrieveStakerInfoRet(info, pulled) ==
    IF RetrievePulls(info)
    THEN IF pulled.err # Nil \/ Deref(pulled.info).Name = Nil
         THEN Nil
         ELSE info
    ELSE info

----------------------------------------------------------------------------
(* Operations of the facade                                                *)

NoAnswer == [info |-> Nil, err |-> Nil]

Last(op, id, hit, asked, ans, pushOk, ret, err) ==
    [op |-> op, id |-> id, hit |-> hit, asked |-> asked, ans |-> ans,
     pushOk |-> pushOk, ret |-> ret, err |-> err]

PullStakerInfo(id) ==
    /\ rpcCalls[id] < MaxCalls
    /\ cacheOps[id] < MaxCalls
    /\ \E pushOk \in PushOutcomes(source[id]) :
        LET ans == source[id]
            r == PullStakerInfoRet(ans)
        IN /\ rpcCalls' = [rpcCalls EXCEPT ![id] = @ + 1]
           /\ cache' = PullStakerInfoCache(cache, id, ans, pushOk)
           /\ cacheOps' = PullStakerInfoOps(cacheOps, id, ans)
           /\ last' = Last("Pull", id, cache[id] # Nil, TRUE, ans, pushOk,
                           r.info, r.err)
    /\ UNCHANGED source

StoreStakerInfo(id) ==
    /\ cacheOps[id] < MaxCalls
    /\ \E sti \in StakerInfos, pushOk \in BOOLEAN :
        /\ cache' = StoreStakerInfoCache(cache, id, sti, pushOk)
        /\ cacheOps' = [cacheOps EXCEPT ![id] = @ + 1]
        /\ last' = Last("Store", id, cache[id] # Nil, FALSE, NoAnswer, pushOk,
                        Ptr(sti), StoreStakerInfoErr(pushOk))
    /\ UNCHANGED <<source, rpcCalls>>

RetrieveStakerInfo(id) ==
    LET info == CachePullStakerInfo(cache, id)
    IN IF RetrievePulls(info)
       THEN /\ rpcCalls[id] < MaxCalls
            /\ cacheOps[id] < MaxCalls
            /\ \E pushOk \in PushOutcomes(source[id]) :
                LET ans == source[id]
                    pulled == PullStakerInfoRet(ans)
                IN /\ rpcCalls' = [rpcCalls EXCEPT ![id] = @ + 1]
                   /\ cache' = PullStakerInfoCache(cache, id, ans, pushOk)
                   /\ cacheOps' = PullStakerInfoOps(cacheOps, id, ans)
                   /\ last' = Last("Retrieve", id, info # Nil, TRUE, ans,
                                   pushOk,
                                   RetrieveStakerInfoRet(info, pulled), Nil)
            /\ UNCHANGED source
       ELSE /\ last' = Last("Retrieve", id, info # Nil, FALSE, NoAnswer, TRUE,
                            RetrieveStakerInfoRet(info, NoAnswer), Nil)
            /\ UNCHANGED <<cache, source, rpcCalls, cacheOps>>

\* the cache drops an entry whose eviction time has passed
Evict(id) ==
    /\ cache[id] # Nil
    /\ cache' = [cache EXCEPT ![id] = Nil]
    /\ last' = Last("Evict", id, TRUE, FALSE, NoAnswer, TRUE, Nil, Nil)
    /\ UNCHANGED <<source, rpcCalls, cacheOps>>

\* the chain or the connection to the node changes what the source answers
SourceChange(id) ==
    /\ \E ans \in SourceAnswers :
        /\ ans # source[id]
        /\ source' = [source EXCEPT ![id] = ans]
    /\ last' = Last("SourceChange", id, cache[id] # Nil, FALSE, NoAnswer, TRUE,
                    Nil, Nil)
    /\ UNCHANGED <<cache, rpcCalls, cacheOps>>

InitSti ==
    /\ cache = [id \in StakerIds |-> Nil]
    /\ source \in [StakerIds -> SourceAnswers]
    /\ rpcCalls = [id \in StakerIds |-> 0]
    /\ cacheOps = [id \in StakerIds |-> 0]
    /\ last = Last("none", 1, FALSE, FALSE, NoAnswer, TRUE, Nil, Nil)
    /\ trx = Nil
    /\ db = Nil
    /\ call = NoCall
    /\ fatal = FALSE
    /\ wd = NoWithdraw
    /\ dbQueries = 0
    /\ InitQueueVars

NextSti ==
    /\ \E id \in StakerIds :
        \/ PullStakerInfo(id)
        \/ StoreStakerInfo(id)
        \/ RetrieveStakerInfo(id)
        \/ Evict(id)
        \/ SourceChange(id)
    /\ UNCHANGED <<callVars, wdVars, queueVars>>

SpecSti == InitSti /\ [][NextSti]_vars

----------------------------------------------------------------------------
(* Properties of the staker information facade                             *)

\* the source answered with a record that carries a name, without error
Usable(ans) ==
    ans.err = Nil /\ ans.info # Nil /\ Deref(ans.info).Name # Nil

\* the source answered that it does not know the id: nil, without error
Unknown(ans) == ans.err = Nil /\ ans.info = Nil

\* C1: a RetrieveStakerInfo(id) that missed the cache and got a named
\* record from the source (with a working cache) is followed by a second
\* RetrieveStakerInfo(id) that does not call the source: the call count of
\* the id does not grow.
C1_SecondRetrieveAsksNoSource ==
    [][(/\ last.op = "Retrieve" /\ ~last.hit /\ Usable(last.ans)
        /\ last.pushOk
        /\ last'.op = "Retrieve" /\ last'.id = last.id)
       => rpcCalls'[last.id] = rpcCalls[last.id]]_vars

\* C2: on a cache miss RetrieveStakerInfo returns nil only if the pull
\* failed or gave no usable record, and returns the source's record
\* whenever that record is usable.
C2_RetrieveReturnsUsableRecord ==
    (last.op = "Retrieve" /\ ~last.hit)
        => /\ last.ret = Nil => ~Usable(last.ans)
           /\ Usable(last.ans) => last.ret = last.ans.info

C4_HitTouchesNothing ==
    [][\A id \in StakerIds :
        /\ (last'.op = "Retrieve" /\ last'.id = id /\ cache[id] # Nil)
            => /\ last'.ret = cache[id]
               /\ rpcCalls' = rpcCalls
               /\ cache' = cache
               /\ cacheOps' = cacheOps
        /\ (last'.op = "Pull" /\ last'.id = id)
            => rpcCalls'[id] = rpcCalls[id] + 1]_vars

\* a named record is returned from the cache, the source never called
C4_Witness ==
    /\ last.op = "Retrieve" /\ last.hit
    /\ last.ret = Ptr(NamedStakerInfo)
    /\ rpcCalls[last.id] = 0

\* C5: when the source call fails, PullStakerInfo returns the source's
\* error with no record and leaves the cache as it was, and a
\* RetrieveStakerInfo that missed the cache returns nil and no error.
C5_SourceErrorHandling ==
    [][/\ (last'.op = "Pull" /\ last'.ans.err # Nil)
            => /\ last'.err = last'.ans.err
               /\ last'.ret = Nil
               /\ cache' = cache /\ cacheOps' = cacheOps
       /\ (last'.op = "Retrieve" /\ ~last'.hit /\ last'.ans.err # Nil)
            => /\ last'.ret = Nil
               /\ last'.err = Nil
               /\ cache' = cache /\ cacheOps' = cacheOps]_vars

\* a pull failed with the source's error while the cache held an entry
C5_Witness ==
    /\ last.op = "Pull" /\ last.err = RpcError
    /\ cache[last.id] # Nil

----------------------------------------------------------------------------
(* Strings and bytes                                                       *)

UpperChars ==
    <<"A", "B", "C", "D", "E", "F", "G", "H", "I", "J", "K", "L", "M",
      "N", "O", "P", "Q", "R", "S", "T", "U", "V", "W", "X", "Y", "Z">>

LowerChars ==
    <<"a", "b", "c", "d", "e", "f", "g", "h", "i", "j", "k", "l", "m",
      "n", "o", "p", "q", "r", "s", "t", "u", "v", "w", "x", "y", "z">>

\* the case fold of one character
FoldChar(c) ==
    IF \E i \in DOMAIN UpperChars : UpperChars[i] = c
    THEN LowerChars[CHOOSE i \in DOMAIN UpperChars : UpperChars[i] = c]
    ELSE c

\* strings.EqualFold(a, b)
EqualFold(a, b) ==
    /\ Len(a) = Len(b)
    /\ \A i \in DOMAIN a : FoldChar(a[i]) = FoldChar(b[i])

HexDigits ==
    <<"0", "1", "2", "3", "4", "5", "6", "7",
      "8", "9", "a", "b", "c", "d", "e", "f">>

\* the two hexadecimal characters of a byte
ByteHex(b) == <<HexDigits[(b \div 16) + 1], HexDigits[(b % 16) + 1]>>

RECURSIVE BytesHex(_)
\* hex.EncodeToString(bytes)
BytesHex(bytes) ==
    IF bytes = <<>> THEN <<>>
    ELSE ByteHex(Head(bytes)) \o BytesHex(Tail(bytes))

\* hexutil.Bytes.String(): the hexadecimal characters after the prefix 0x
HexutilString(bytes) == <<"0", "x">> \o BytesHex(bytes)

\* s[:n]
Prefix(s, n) == SubSeq(s, 1, n)

Zeros(n) == [i \in 1..n |-> 0]

----------------------------------------------------------------------------
(* Accounts, contracts, interfaces                                         *)

\* types.AccountTypeContract, "contract"
AccountTypeContract == <<"c", "o", "n", "t", "r", "a", "c", "t">>

\* types.AccountTypeERC20Token, "ERC20"
AccountTypeERC20Token == <<"E", "R", "C", "2", "0">>

\* the type of a token contract as some records spell it
TypeErc20Lower == <<"e", "r", "c", "2", "0">>

ContractTypes == {AccountTypeContract, AccountTypeERC20Token, TypeErc20Lower}

\* cfg.Staking.SFCContract, 0xFC00FACE00000000000000000000000000000000
SfcContract == <<252, 0, 250, 206>> \o Zeros(16)

\* a token contract, 0x0000...0ABC
TokenContract == Zeros(18) \o <<10, 188>>

Addresses == {SfcContract, TokenContract}

\* the selectors of the calls: transfer(address,uint256), a function only
\* the first version of the SFC had, and one that no interface has
SelTransfer == <<169, 5, 156, 187>>

SelLegacy == <<196, 27, 100, 5>>

SelDelegate == <<157, 220, 114, 249>>

SelUnknown == <<222, 173, 190, 239>>

Selectors == {SelTransfer, SelLegacy, SelUnknown}

NameTransfer == <<"t", "r", "a", "n", "s", "f", "e", "r">>

NameLegacy == <<"c", "r", "e", "a", "t", "e", "S", "t", "a", "k", "e">>

NameDelegate == <<"d", "e", "l", "e", "g", "a", "t", "e">>

\* An interface description (the ABI JSON text) is the sequence of its
\* function entries; the empty text has none.  An entry that is not ok
\* makes the text unparseable.
AbiEntry(name, id, ok) == [name |-> name, id |-> id, ok |-> ok]

AbiNone == <<>>

AbiToken == <<AbiEntry(NameTransfer, SelTransfer, TRUE)>>

AbiSfc == <<AbiEntry(NameDelegate, SelDelegate, TRUE)>>

AbiMalformed ==
    <<AbiEntry(NameTransfer, SelTransfer, TRUE),
      AbiEntry(NameDelegate, SelDelegate, FALSE)>>

Abis == {AbiNone, AbiToken, AbiSfc, AbiMalformed}

\* contracts.SfcV1ContractABI
SfcV1ContractABI == <<AbiEntry(NameLegacy, SelLegacy, TRUE)>>

\* types.Contract
Contracts == [Abi : Abis, Type : ContractTypes]

\* types.Account
Accounts == [Type : {AccountTypeContract, AccountTypeERC20Token}]

DbError == Ptr(<<"d", "b">>)

\* the results of repo.Contract(addr): (sc, err)
ContractAnswers ==
    {[sc |-> Ptr(c), err |-> Nil] : c \in Contracts}
        \cup {[sc |-> Nil, err |-> Nil], [sc |-> Nil, err |-> DbError]}

\* the results of repo.Account(addr): (acc, err)
AccountAnswers ==
    {[acc |-> Ptr(a), err |-> Nil] : a \in Accounts}
        \cup {[acc |-> Nil, err |-> Nil], [acc |-> Nil, err |-> DbError]}

\* the results of repo.TransactionUpdate(trx)
UpdateAnswers == {Nil, DbError}

----------------------------------------------------------------------------
(* Transactions                                                            *)

\* the input data of a call of sel: the selector, arguments after it,
\* cut to n bytes
InputOf(sel, n) == Prefix(sel \o Zeros(MaxInputLen), n)

\* hexutil.Bytes values: nil, the empty slice, and calls cut short or whole
InputDatas ==
    {Nil, Ptr(<<>>)}
        \cup {Ptr(InputOf(sel, n)) : sel \in Selectors, n \in 3..MaxInputLen}

\* a transaction as the scanner delivers it: no derived field set
NewTransactions ==
    [To : {Nil} \cup {Ptr(a) : a \in Addresses},
     InputData : InputDatas,
     TargetContractType : {Nil},
     TargetFunctionCall : {Nil},
     IsErc20Call : {FALSE}]

\* the fields analyzeCall derives
Derived(t) ==
    [TargetContractType |-> t.TargetContractType,
     TargetFunctionCall |-> t.TargetFunctionCall,
     IsErc20Call |-> t.IsErc20Call]

----------------------------------------------------------------------------
(* IsLikelyAContractCall                                                   *)

IsLikelyAContractCallNoTo(t) ==
    /\ t # Nil
    /\ Deref(t).InputData # Nil
    /\ 4 <= Len(Deref(Deref(t).InputData))

IsLikelyAContractCall(t) ==
    /\ t # Nil
    /\ Deref(t).To # Nil
    /\ Deref(t).InputData # Nil
    /\ 4 <= Len(Deref(Deref(t).InputData))

----------------------------------------------------------------------------
(* The ABI matcher                                                         *)

\* abi.JSON: whether the text parses
AbiParses(inAbi) == \A i \in DOMAIN inAbi : inAbi[i].ok

\* abi.ABI.MethodById(sigdata): whether a method has the first 4 bytes of
\* sigdata as its id; no method is found for less than 4 bytes
MethodFound(inAbi, sigdata) ==
    /\ 4 <= Len(sigdata)
    /\ \E i \in DOMAIN inAbi : inAbi[i].id = Prefix(sigdata, 4)

\* the method abi.ABI.MethodById(sigdata) returns
MethodById(inAbi, sigdata) ==
    inAbi[CHOOSE i \in DOMAIN inAbi : inAbi[i].id = Prefix(sigdata, 4)]

\* contractCallQueue.matchCallMethod, on a transaction record
matchCallMethod(t, inAbi) ==
    IF ~MethodFound(inAbi, Deref(t.InputData))
    THEN t
    ELSE [t EXCEPT !.TargetFunctionCall =
                        Ptr(MethodById(inAbi, Deref(t.InputData)).name)]

\* contractCallQueue.tryMatchWithAbi
tryMatchWithAbi(t, inAbi) ==
    IF ~AbiParses(inAbi) THEN t ELSE matchCallMethod(t, inAbi)

\* repo.IsSfcContract(addr)
IsSfcContract(addr) == addr = Ptr(SfcContract)

----------------------------------------------------------------------------
(* updateTargetContractType                                                *)

\* &acc.Type of a nil acc: the goroutine panics
updateTargetContractTypePanics(accAns) ==
    accAns.err = Nil /\ accAns.acc = Nil

updateTargetContractType(t, accAns) ==
    IF accAns.err # Nil
    THEN [t EXCEPT !.TargetContractType = Ptr(AccountTypeContract)]
    ELSE [t EXCEPT !.TargetContractType = Ptr(Deref(accAns.acc).Type)]

----------------------------------------------------------------------------
(* updateTargetFunctionSignature                                           *)

matchContractAbiFlagFirst(t, sc) ==
    IF sc.Abi # AbiNone
    THEN [tryMatchWithAbi(t, sc.Abi) EXCEPT
            !.IsErc20Call = /\ t.TargetFunctionCall # Nil
                            /\ EqualFold(sc.Type, AccountTypeERC20Token)]
    ELSE t

\* the contract's own ABI: lines 218-224
matchContractAbi(t, sc) ==
    IF sc.Abi # AbiNone
    THEN [tryMatchWithAbi(t, sc.Abi) EXCEPT
            !.IsErc20Call = EqualFold(sc.Type, AccountTypeERC20Token)]
    ELSE t

\* the previous version of the SFC: lines 227-230
matchLegacyAbi(t) ==
    IF t.TargetFunctionCall = Nil /\ IsSfcContract(t.To)
    THEN tryMatchWithAbi(t, SfcV1ContractABI)
    ELSE t

rawSignatureNever(t) == t

\* the raw call function signature: lines 233-240
rawSignature(t) ==
    IF t.TargetFunctionCall = Nil
    THEN [t EXCEPT !.TargetFunctionCall =
                        Ptr(Prefix(HexutilString(Deref(t.InputData)), 8))]
    ELSE t

updateTargetFunctionSignature(t, sc) ==
    rawSignature(matchLegacyAbi(matchContractAbi(t, sc)))

\* which of the strategies gave the transaction its TargetFunctionCall:
\* "own", "legacy", "raw", or "kept" when the value it came with stayed
Strategy(t, sc) ==
    LET t1 == matchContractAbi(t, sc)
        t2 == matchLegacyAbi(t1)
    IN IF sc.Abi # AbiNone /\ AbiParses(sc.Abi)
          /\ MethodFound(sc.Abi, Deref(t.InputData))
       THEN "own"
       ELSE IF t1.TargetFunctionCall # Nil THEN "kept"
       ELSE IF t2.TargetFunctionCall # Nil THEN "legacy"
       ELSE "raw"

----------------------------------------------------------------------------
(* analyzeCall                                                             *)

\* how far analyzeCall gets: "skipped" (not a call), "unknown" (no
\* contract), "panic" (in updateTargetContractType) or "updated"
AnalyzeOutcome(t, scAns, accAns) ==
    IF ~IsLikelyAContractCall(t) THEN "skipped"
    ELSE IF scAns.sc = Nil THEN "unknown"
    ELSE IF updateTargetContractTypePanics(accAns) THEN "panic"
    ELSE "updated"

AnalyzeTrxGenericOnUnknown(t, scAns, accAns) ==
    IF ~IsLikelyAContractCall(t) THEN t
    ELSE IF scAns.sc = Nil
    THEN Ptr([Deref(t) EXCEPT !.TargetContractType = Ptr(AccountTypeContract)])
    ELSE IF updateTargetContractTypePanics(accAns) THEN t
    ELSE Ptr(updateTargetFunctionSignature(
                updateTargetContractType(Deref(t), accAns),
                Deref(scAns.sc)))

\* the transaction record after analyzeCall
AnalyzeTrx(t, scAns, accAns) ==
    IF AnalyzeOutcome(t, scAns, accAns) = "updated"
    THEN Ptr(updateTargetFunctionSignature(
                updateTargetContractType(Deref(t), accAns),
                Deref(scAns.sc)))
    ELSE t

\* the answers repo.Account can give, when analyzeCall asks it
AccountOutcomes(t, scAns) ==
    IF AnalyzeOutcome(t, scAns, NoAccount) \in {"skipped", "unknown"}
    THEN {NoAccount}
    ELSE AccountAnswers

\* the answers repo.TransactionUpdate can give, when analyzeCall calls it
UpdateOutcomes(t, scAns, accAns) ==
    IF AnalyzeOutcome(t, scAns, accAns) = "updated"
    THEN UpdateAnswers
    ELSE {Nil}

\* the scanner hands a transaction over for analysis
NewTransaction ==
    /\ ~fatal
    /\ \E t \in {Nil} \cup {Ptr(n) : n \in NewTransactions} :
        /\ trx' = t
        /\ db' = IF t = Nil THEN Nil ELSE Ptr(Derived(Deref(t)))
    /\ call' = NoCall
    /\ UNCHANGED <<fatal, stiVars, wdVars, queueVars>>

AnalyzeCall ==
    /\ ~fatal
    /\ \E scAns \in ContractAnswers :
       \E accAns \in AccountOutcomes(trx, scAns) :
       \E updErr \in UpdateOutcomes(trx, scAns, accAns) :
        LET o == AnalyzeOutcome(trx, scAns, accAns)
            looked == o # "skipped"
            typed == o \in {"panic", "updated"}
            after == AnalyzeTrx(trx, scAns, accAns)
        IN /\ trx' = after
           /\ db' = IF o = "updated" /\ updErr = Nil
                    THEN Ptr(Derived(Deref(after)))
                    ELSE db
           /\ fatal' = (o = "panic")
           /\ call' =
                [op |-> "analyzeCall", outcome |-> o,
                 contract |-> IF looked THEN scAns ELSE NoContract,
                 contractLookup |-> looked,
                 account |-> IF typed THEN accAns ELSE NoAccount,
                 accountLookup |-> typed,
                 updateCalled |-> o = "updated",
                 updateErr |-> IF o = "updated" THEN updErr ELSE Nil,
                 strategy |-> IF o = "updated"
                              THEN Strategy(
                                    updateTargetContractType(Deref(trx), accAns),
                                    Deref(scAns.sc))
                              ELSE "none"]
    /\ UNCHANGED <<stiVars, wdVars, queueVars>>

InitCall ==
    /\ trx = Nil
    /\ db = Nil
    /\ call = NoCall
    /\ fatal = FALSE
    /\ cache = [id \in StakerIds |-> Nil]
    /\ source = [id \in StakerIds |-> NoAnswer]
    /\ rpcCalls = [id \in StakerIds |-> 0]
    /\ cacheOps = [id \in StakerIds |-> 0]
    /\ last = Last("none", 1, FALSE, FALSE, NoAnswer, TRUE, Nil, Nil)
    /\ wd = NoWithdraw
    /\ dbQueries = 0
    /\ InitQueueVars

NextCall ==
    \/ NewTransaction
    \/ AnalyzeCall

SpecCall == InitCall /\ [][NextCall]_vars

----------------------------------------------------------------------------
(* Properties of the call analyzer                                         *)

\* the step is an analyzeCall of a transaction that is there
Analyzed == call'.op = "analyzeCall" /\ trx # Nil

\* the transaction has a recipient and at least 4 bytes of input data
Eligible(t) ==
    t.To # Nil /\ t.InputData # Nil /\ Len(Deref(t.InputData)) >= 4

\* C6: after analyzeCall has returned for an eligible transaction whose
\* recipient is a known contract, TargetFunctionCall is not nil, whatever
\* the contract's ABI is and whichever strategy applied.
C6_FunctionCallSet ==
    (/\ call.op = "analyzeCall" /\ call.contractLookup
     /\ call.contract.sc # Nil /\ ~fatal)
        => trx # Nil /\ Deref(trx).TargetFunctionCall # Nil

\* the raw selector was recorded for a contract whose ABI does not parse
C6_Witness ==
    /\ call.op = "analyzeCall" /\ call.strategy = "raw"
    /\ call.contract.sc # Nil
    /\ Deref(call.contract.sc).Abi = AbiMalformed
    /\ Deref(trx).TargetFunctionCall # Nil
    /\ ~fatal

\* C7: an analyzeCall that turns IsErc20Call from false to true had a
\* contract whose type is the ERC-20 type, case ignored, and matched the
\* selector against the contract's own ABI.
C7_Erc20OnlyOnOwnMatch ==
    [][(/\ Analyzed /\ call'.outcome = "updated"
        /\ ~Deref(trx).IsErc20Call /\ Deref(trx').IsErc20Call)
       => /\ EqualFold(Deref(call'.contract.sc).Type, AccountTypeERC20Token)
          /\ call'.strategy = "own"]_vars

\* C8: analyzeCall of a transaction without recipient, without input data
\* or with less than 4 bytes of it changes no field of the transaction,
\* looks up neither contract nor account and does not call
\* TransactionUpdate.
C8_IneligibleUntouched ==
    [][(Analyzed /\ ~Eligible(Deref(trx)))
       => /\ trx' = trx
          /\ db' = db
          /\ ~call'.contractLookup
          /\ ~call'.accountLookup
          /\ ~call'.updateCalled]_vars

\* a transaction with a recipient and 3 bytes of input data was skipped
C8_Witness ==
    /\ call.op = "analyzeCall" /\ call.outcome = "skipped"
    /\ trx # Nil
    /\ Deref(trx).To # Nil
    /\ Deref(trx).InputData # Nil
    /\ Len(Deref(Deref(trx).InputData)) = 3

\* C9: analyzeCall of an eligible transaction whose contract lookup gives
\* no record, with or without an error, changes no field of the
\* transaction and does not call TransactionUpdate.
C9_UnknownContractUntouched ==
    [][(/\ Analyzed /\ Eligible(Deref(trx))
        /\ call'.contractLookup /\ call'.contract.sc = Nil)
       => /\ trx' = trx
          /\ db' = db
          /\ ~call'.updateCalled
          /\ ~fatal']_vars

\* the contract lookup of an eligible transaction failed with an error
C9_Witness ==
    /\ call.op = "analyzeCall" /\ call.outcome = "unknown"
    /\ call.contract = [sc |-> Nil, err |-> DbError]
    /\ Eligible(Deref(trx))

\* C10: when neither the contract's ABI nor the legacy ABI matches,
\* TargetFunctionCall is the 8 hexadecimal characters of the first 4 bytes
\* of the input data, without prefix.
C10_RawSelectorIsEightHexChars ==
    (call.op = "analyzeCall" /\ call.strategy = "raw")
        => Deref(trx).TargetFunctionCall
             = Ptr(BytesHex(Prefix(Deref(Deref(trx).InputData), 4)))

\* C15 as stated: for an eligible transaction with a known contract, a
\* found account gives TargetContractType its type; a missing account,
\* with or without an error, gives the generic contract type; either way
\* the analysis goes on to the function decoding and TransactionUpdate.
C15_ContractTypeFromAccount ==
    (call.op = "analyzeCall" /\ call.accountLookup)
        => /\ ~fatal
           /\ call.updateCalled
           /\ Deref(trx).TargetFunctionCall # Nil
           /\ Deref(trx).TargetContractType =
                IF call.account.acc # Nil
                THEN Ptr(Deref(call.account.acc).Type)
                ELSE Ptr(AccountTypeContract)

\* C16: an analyzeCall that follows an analyzeCall of the same transaction
\* with the same contract and account answers leaves TargetContractType,
\* TargetFunctionCall and IsErc20Call as the first left them.
C16_AnalysisIdempotent ==
    [][(/\ Analyzed /\ call'.outcome = "updated"
        /\ call.op = "analyzeCall" /\ call.outcome = "updated"
        /\ call'.contract = call.contract
        /\ call'.account = call.account)
       => Derived(Deref(trx')) = Derived(Deref(trx))]_vars

\* a second analysis with the same answers kept the function the first
\* had recorded
C16_Witness ==
    /\ call.op = "analyzeCall" /\ call.outcome = "updated"
    /\ call.strategy = "kept"
    /\ AnalyzeTrx(trx, call.contract, call.account) = trx

\* the transaction as the scanner delivered it: the derived fields unset
Fresh(t) ==
    [t EXCEPT !.TargetContractType = Nil, !.TargetFunctionCall = Nil,
              !.IsErc20Call = FALSE]

\* C17: the derived fields after analyzeCall are those the analysis of a
\* copy with the same To and InputData and no derived field set gives
\* under the same contract and account answers: the values the fields had
\* before do not matter.
C17_DerivedFromImmutableInputs ==
    (call.op = "analyzeCall" /\ call.outcome = "updated")
        => Derived(Deref(trx)) =
             Derived(Deref(AnalyzeTrx(Ptr(Fresh(Deref(trx))),
                                      call.contract, call.account)))

\* the function name the first strategy that succeeds gives: the
\* contract's ABI, then the legacy ABI for the SFC, then the raw selector
FirstMatch(t, sc) ==
    LET input == Deref(t.InputData)
    IN IF sc.Abi # AbiNone /\ AbiParses(sc.Abi) /\ MethodFound(sc.Abi, input)
       THEN Ptr(MethodById(sc.Abi, input).name)
       ELSE IF IsSfcContract(t.To) /\ MethodFound(SfcV1ContractABI, input)
       THEN Ptr(MethodById(SfcV1ContractABI, input).name)
       ELSE Ptr(Prefix(HexutilString(input), 8))

\* C19: TargetFunctionCall is what the first succeeding strategy gives, in
\* the order contract ABI, legacy SFC ABI, raw selector; the legacy ABI
\* decides only when the contract's ABI gave no match and the recipient is
\* the SFC, and then IsErc20Call is false for a contract that is no token.
C19_FirstStrategyDecides ==
    (call.op = "analyzeCall" /\ call.outcome = "updated")
        => LET sc == Deref(call.contract.sc)
               t == Deref(trx)
           IN /\ t.TargetFunctionCall = FirstMatch(t, sc)
              /\ call.strategy = "legacy"
                    => /\ IsSfcContract(t.To)
                       /\ t.TargetFunctionCall = Ptr(NameLegacy)
                       /\ (~EqualFold(sc.Type, AccountTypeERC20Token)
                              => ~t.IsErc20Call)

\* C20: while the source reports an id as unknown, a RetrieveStakerInfo(id)
\* answered from the cache returns what the RetrieveStakerInfo(id) before
\* it, answered by the source on a cache miss, returned: nil.
C20_UnknownAlwaysNotFound ==
    [][(/\ last.op = "Retrieve" /\ ~last.hit /\ Unknown(last.ans)
        /\ last'.op = "Retrieve" /\ last'.id = last.id)
       => last'.ret = Nil /\ last'.ret = last.ret]_vars

----------------------------------------------------------------------------
(* proxy.WithdrawRequests                                                  *)

RECURSIVE NatHex(_)
\* the hexadecimal characters of a number, without leading zeros
NatHex(n) ==
    IF n < 16 THEN <<HexDigits[n + 1]>>
    ELSE NatHex(n \div 16) \o <<HexDigits[(n % 16) + 1]>>

\* common.Address.String(): the hexadecimal characters after the prefix
\* 0x (the letters' checksum case is left out)
AddressString(addr) == <<"0", "x">> \o BytesHex(addr)

\* hexutil.Big.String()
BigString(n) == <<"0", "x">> \o NatHex(n)

KeyAddr == <<"a", "d", "d", "r">>

KeyTo == <<"t", "o">>

\* one element of a bson.D
E(key, value) == [Key |-> key, Value |-> value]

WithdrawFilterNoStaker(addr, stakerID) ==
    <<E(KeyAddr, AddressString(Deref(addr)))>>

\* the filter handed to db.Withdrawals
WithdrawFilter(addr, stakerID) ==
    IF stakerID = Nil
    THEN <<E(KeyAddr, AddressString(Deref(addr)))>>
    ELSE <<E(KeyAddr, AddressString(Deref(addr))),
           E(KeyTo, BigString(Deref(stakerID)))>>

\* a page cursor
Cursors == {Nil, Ptr(<<"c", "1">>)}

\* a page of withdraw requests, as far as the facade looks at it
WithdrawRequestList == Ptr(<<"l", "i", "s", "t">>)

\* the results of db.Withdrawals: (list, err)
WithdrawalAnswers ==
    {[list |-> WithdrawRequestList, err |-> Nil],
     [list |-> Nil, err |-> DbError]}

WithdrawRequests ==
    /\ dbQueries < MaxQueries
    /\ \E addr \in {Ptr(a) : a \in Addresses},
          stakerID \in {Nil} \cup {Ptr(id) : id \in StakerIds},
          cursor \in Cursors,
          count \in -MaxCount..MaxCount,
          ans \in WithdrawalAnswers :
        wd' = [op |-> "WithdrawRequests", addr |-> addr,
               stakerID |-> stakerID, cursor |-> cursor, count |-> count,
               qCursor |-> cursor, qCount |-> count,
               qFilter |-> WithdrawFilter(addr, stakerID),
               ret |-> ans]
    /\ dbQueries' = dbQueries + 1
    /\ UNCHANGED <<stiVars, callVars, queueVars>>

InitWithdraw ==
    /\ cache \in [StakerIds -> StakerInfoPtrs]
    /\ source = [id \in StakerIds |-> NoAnswer]
    /\ rpcCalls = [id \in StakerIds |-> 0]
    /\ cacheOps = [id \in StakerIds |-> 0]
    /\ last = Last("none", 1, FALSE, FALSE, NoAnswer, TRUE, Nil, Nil)
    /\ trx = Nil
    /\ db = Nil
    /\ call = NoCall
    /\ fatal = FALSE
    /\ wd = NoWithdraw
    /\ dbQueries = 0
    /\ InitQueueVars

NextWithdraw == WithdrawRequests

SpecWithdraw == InitWithdraw /\ [][NextWithdraw]_vars

\* C18: WithdrawRequests makes one db.Withdrawals query and touches neither
\* the cache nor the source; the filter has the delegator address always
\* and the staker id exactly when one was given; cursor and count go to
\* the query as they came.
C18_WithdrawQuery ==
    [][wd'.op = "WithdrawRequests"
       => /\ dbQueries' = dbQueries + 1
          /\ cache' = cache /\ cacheOps' = cacheOps /\ rpcCalls' = rpcCalls
          /\ wd'.qFilter[1] = E(KeyAddr, AddressString(Deref(wd'.addr)))
          /\ (wd'.stakerID = Nil) => Len(wd'.qFilter) = 1
          /\ (wd'.stakerID # Nil)
                => /\ Len(wd'.qFilter) = 2
                   /\ wd'.qFilter[2]
                        = E(KeyTo, BigString(Deref(wd'.stakerID)))
          /\ wd'.qCursor = wd'.cursor
          /\ wd'.qCount = wd'.count]_vars

\* the requests of a delegator to validator 2 were queried, a page back
C18_Witness ==
    /\ wd.op = "WithdrawRequests"
    /\ wd.stakerID = Ptr(2)
    /\ wd.qFilter[2] = E(KeyTo, <<"0", "x", "2">>)
    /\ wd.count < 0
    /\ dbQueries = 1

----------------------------------------------------------------------------
(* contractCallQueue: run and monitorContractCalls                         *)

\* the transactions the scanner sends: a token transfer call and a
\* contract creation without input data
QueueTransactions ==
    {t \in NewTransactions :
        \/ t.To = Ptr(TokenContract) /\ t.InputData = Ptr(InputOf(SelTransfer, 4))
        \/ t.To = Nil /\ t.InputData = Nil}

\* the results of repo.Contract for them: the token contract, or none
QueueContractAnswers ==
    {[sc |-> Ptr([Abi |-> AbiToken, Type |-> AccountTypeERC20Token]),
      err |-> Nil],
     [sc |-> Nil, err |-> DbError]}

wgKeep(n) == n

\* cq.wg.Done()
wgDone(n) == n - 1

ChannelLast(ch) == ch[Len(ch)]

\* <-cq.buffer: a channel gives the value sent first
ChannelRecv(ch) == ch[1]

TransactionUpdateTypeOnly(old, t, err) ==
    [old EXCEPT !.TargetContractType = t.TargetContractType]

\* repo.TransactionUpdate(trx): the derived fields in the database after it
TransactionUpdate(old, t, err) ==
    IF err = Nil THEN Derived(t) ELSE old

\* the process has not ended by a panic
Running == pc # "panic"

\* the scanner sends a transaction, or a nil reference, to cq.buffer; the
\* send blocks while the channel is full
Enqueue ==
    /\ Running
    /\ enq < MaxTrx
    /\ Len(buffer) < contractCallQueueLength
    /\ enq' = enq + 1
    /\ \/ /\ buffer' = Append(buffer, Nil)
          /\ UNCHANGED <<mem, store>>
       \/ \E t \in QueueTransactions :
            /\ mem' = Append(mem, t)
            /\ store' = Append(store, Derived(t))
            /\ buffer' = Append(buffer, Ptr(Len(mem) + 1))
    /\ UNCHANGED <<sigStop, wg, pc, cur, started, finished>>
    /\ UNCHANGED <<stiVars, callVars, wdVars>>

\* the owner of the service closes cq.sigStop
Stop ==
    /\ Running
    /\ ~sigStop
    /\ sigStop' = TRUE
    /\ UNCHANGED <<buffer, wg, pc, cur, mem, store, enq, started, finished>>
    /\ UNCHANGED <<stiVars, callVars, wdVars>>

\* case trx := <-cq.buffer, up to the call of analyzeCall; trx.Hash of a
\* nil trx panics, and the deferred function runs
Receive ==
    /\ pc = "select"
    /\ buffer # <<>>
    /\ LET t == ChannelRecv(buffer)
       IN IF t = Nil
          THEN /\ pc' = "panic"
               /\ wg' = wgDone(wg)
               /\ UNCHANGED <<cur, started>>
          ELSE /\ pc' = "analyze"
               /\ cur' = t
               /\ started' = Append(started, Deref(t))
               /\ wg' = wg
    /\ buffer' = Tail(buffer)
    /\ UNCHANGED <<sigStop, mem, store, enq, finished>>
    /\ UNCHANGED <<stiVars, callVars, wdVars>>

\* analyzeCall up to the call of repo.TransactionUpdate
Classify ==
    /\ pc = "analyze"
    /\ LET i == Deref(cur)
           t == Ptr(mem[i])
       IN \E scAns \in QueueContractAnswers :
          \E accAns \in AccountOutcomes(t, scAns) :
            LET o == AnalyzeOutcome(t, scAns, accAns)
                returns == o \in {"skipped", "unknown"}
            IN /\ mem' = [mem EXCEPT ![i] = Deref(AnalyzeTrx(t, scAns, accAns))]
               /\ pc' = IF o = "updated" THEN "update"
                        ELSE IF o = "panic" THEN "panic"
                        ELSE "select"
               /\ wg' = IF o = "panic" THEN wgDone(wg) ELSE wg
               /\ finished' = IF returns THEN Append(finished, i) ELSE finished
               /\ cur' = IF returns THEN Nil ELSE cur
    /\ UNCHANGED <<buffer, sigStop, store, enq, started>>
    /\ UNCHANGED <<stiVars, callVars, wdVars>>

\* repo.TransactionUpdate(trx) and the return of analyzeCall
Update ==
    /\ pc = "update"
    /\ \E err \in UpdateAnswers :
        store' = [store EXCEPT ![Deref(cur)] =
                        TransactionUpdate(@, mem[Deref(cur)], err)]
    /\ pc' = "select"
    /\ finished' = Append(finished, Deref(cur))
    /\ cur' = Nil
    /\ UNCHANGED <<buffer, sigStop, wg, mem, enq, started>>
    /\ UNCHANGED <<stiVars, callVars, wdVars>>

\* case <-cq.sigStop: return, and the deferred function runs
Exit ==
    /\ pc = "select"
    /\ sigStop
    /\ pc' = "done"
    /\ wg' = wgDone(wg)
    /\ UNCHANGED <<buffer, sigStop, cur, mem, store, enq, started, finished>>
    /\ UNCHANGED <<stiVars, callVars, wdVars>>

InitQueue ==
    /\ InitQueueVars
    /\ cache = [id \in StakerIds |-> Nil]
    /\ source = [id \in StakerIds |-> NoAnswer]
    /\ rpcCalls = [id \in StakerIds |-> 0]
    /\ cacheOps = [id \in StakerIds |-> 0]
    /\ last = Last("none", 1, FALSE, FALSE, NoAnswer, TRUE, Nil, Nil)
    /\ trx = Nil
    /\ db = Nil
    /\ call = NoCall
    /\ fatal = FALSE
    /\ wd = NoWithdraw
    /\ dbQueries = 0

NextQueue ==
    \/ Enqueue
    \/ Stop
    \/ Receive
    \/ Classify
    \/ Update
    \/ Exit

SpecQueue == InitQueue /\ [][NextQueue]_vars

\* The worker goes on while it can; a select with several ready cases
\* takes one at random, so that the case of the stop signal, ready again
\* and again, is taken at last.
FairSpecQueue ==
    /\ SpecQueue
    /\ WF_vars(Receive)
    /\ WF_vars(Classify)
    /\ WF_vars(Update)
    /\ SF_vars(Exit)

----------------------------------------------------------------------------
(* Properties of the queue                                                 *)

\* monitorContractCalls has ended, by return or by panic
Terminated == pc \in {"done", "panic"}

\* C11, as stated: once the stop signal is issued, the worker starts no
\* further transaction: it finishes the one it is analyzing and leaves.
C11_NoAnalysisAfterStop ==
    [][sigStop => started' = started]_vars

\* C11, amended: the counter is 1 from the start until the worker ends
\* and 0 from then on, decremented once, whether the worker returns or
\* panics; once the stop signal is issued the worker ends at last, after
\* the transaction it is analyzing and after those the select may still
\* take from the channel.
C11_StopEndsWorker ==
    /\ [](wg \in {0, 1} /\ (wg = 0 <=> Terminated))
    /\ [][wg' # wg => (wg = 1 /\ wg' = 0 /\ ~Terminated /\ Terminated')]_vars
    /\ (sigStop ~> Terminated)

\* the worker returned on the stop signal after two transactions and left
\* a value in the channel; the counter is 0
C11_Witness ==
    /\ pc = "done" /\ wg = 0 /\ sigStop
    /\ buffer # <<>>
    /\ Len(finished) = 2

\* C12: analyzeCall is called with the transactions in the order they
\* were sent, each call after the one before has returned; no two calls
\* are in progress at once.
C12_FifoOneAtATime ==
    /\ \A k \in DOMAIN started : started[k] = k
    /\ \A k \in DOMAIN finished : finished[k] = started[k]
    /\ Len(finished) <= Len(started)
    /\ Len(started) <= Len(finished) + 1
    /\ (pc = "select") => Len(started) = Len(finished)

\* three transactions went through, two of them waiting in the channel
\* while the first was analyzed
C12_Witness ==
    /\ finished = <<1, 2, 3>>
    /\ pc = "select"

\* no derived field is set
Untouched(d) ==
    /\ d.TargetContractType = Nil
    /\ d.TargetFunctionCall = Nil
    /\ d.IsErc20Call = FALSE

\* the type and the function call are set
Classified(d) ==
    /\ d.TargetContractType # Nil
    /\ d.TargetFunctionCall # Nil

\* C13, as stated: a transaction the worker is not analyzing carries no
\* derived field that is not in the database.
C13_NoUnpersistedFields ==
    \A i \in DOMAIN mem :
        cur # Ptr(i) => Derived(mem[i]) = store[i]

\* C13, amended: the database's record of a transaction is either
\* untouched or has all the derived fields the record in memory has, type
\* and function call set; the record in memory of a transaction the worker
\* is not analyzing is either untouched or fully classified.
C13_StoreAllOrNothing ==
    \A i \in DOMAIN mem :
        /\ Untouched(store[i])
              \/ (Classified(store[i]) /\ store[i] = Derived(mem[i]))
        /\ cur # Ptr(i)
              => Untouched(Derived(mem[i])) \/ Classified(Derived(mem[i]))

\* after the stop signal, one transaction is classified and stored and
\* another is classified in memory only, its update having failed
C13_Witness ==
    /\ sigStop
    /\ \E i, j \in DOMAIN mem :
        /\ Classified(store[i])
        /\ j \in {finished[k] : k \in DOMAIN finished}
        /\ Classified(Derived(mem[j])) /\ Untouched(store[j])

\* C14: the worker never ends by a panic.
C14_NeverFatal ==
    pc # "panic"

====
